---- MODULE Spec2Model ----
(***************************************************************************)
(* Model of the SQL agent workflow of backend/sql_agent.py: the LangGraph  *)
(* state graph (initialize, generate_sql, validate_sql, execute_sql,       *)
(* format_response, increment_retry, finalize), its routing functions and  *)
(* SQLAgent.process_query, together with the parts of llm_chain.py and     *)
(* postgres.py the nodes call.                                             *)
(*                                                                         *)
(* Texts are sequences of tokens; the empty text is << >>.  Python's None  *)
(* is the value None for texts, NoneInt for numbers and NoneDict for       *)
(* dictionaries.                                                           *)
(***************************************************************************)
EXTENDS Integers, Sequences, FiniteSets, TLC

\* Largest value of the MAX_SQL_RETRIES setting that is explored.
MaxCeiling == 4

\* settings.py: the default of MAX_SQL_RETRIES.
DefaultMaxSqlRetries == 3

\* How much later than the first the clock of a second invocation reads.
OtherDelay == 5

\* Number of /query requests that are explored.
MaxRequests == 4

\* Number of calls of add_to_query_history that are explored.
MaxAdds == 12

\* frontend/utils.py: the number of history items that are kept.
HistoryLimit == 10

VARIABLES
    MAX_SQL_RETRIES,   \* settings.MAX_SQL_RETRIES, read once at import
    pc,                \* position of the run: the graph node to run next
    state,             \* the AgentState dictionary of the current run
    clock,             \* time.time(), counted from the call of process_query
    calls,             \* the collaborator calls of the current run, in order
    response,          \* what process_query returned: << >> or <<QueryResponse>>
    other,             \* a second invocation of process_query on the same agent
    sql_agent,         \* main.py's view of the global agent: None when it failed to start
    app_state,         \* main.py: the usage counters of the API
    requests,          \* the /query requests: where each stands and how it was answered
    generation,        \* one run of generate_sql_node, step by step
    query_history,     \* frontend: st.session_state.query_history
    added              \* every item ever given to add_to_query_history, in order

\* the variables of the API layer
api == <<sql_agent, app_state, requests>>

\* the variables of the frontend session
session == <<query_history, added>>

vars ==
    <<MAX_SQL_RETRIES, pc, state, clock, calls, response, other, api,
      generation, session>>

----------------------------------------------------------------------------
\* Python values

None == <<"<None>">>
NoneInt == -1
NoneDict == << >>

\* Python truthiness of an Optional[str]
Truthy(x) == x # None /\ x # << >>

\* str(x) as an f-string renders it
Str(x) == IF x = None THEN <<"None">> ELSE x

WS == {" ", "\n"}

RECURSIVE LStrip(_)
LStrip(t) == IF t # << >> /\ Head(t) \in WS THEN LStrip(Tail(t)) ELSE t

RECURSIVE RStrip(_)
RStrip(t) ==
    IF t # << >> /\ t[Len(t)] \in WS THEN RStrip(SubSeq(t, 1, Len(t) - 1)) ELSE t

\* str.strip()
Strip(t) == RStrip(LStrip(t))

----------------------------------------------------------------------------
\* Inputs of a run

Questions == { <<"Show all customers">>, <<"Total revenue">>, << >> }
UserIds == { None, <<"u1">> }

\* The texts of the exceptions that report a timeout of a stage
TimeoutTexts ==
    { <<"LLM timeout">>, <<"validation timeout">>, <<"query timeout">> }

\* What the SQL generation chain's LLM may answer, or the failure it raises
LLMOutputs ==
    { <<"SELECT a", ";">>,
      <<"SELECT b">>,
      <<"<fence sql>", "SELECT a", ";", "<fence>">>,
      <<" ">> }

GeneratorResponses ==
    [kind : {"ok"}, text : LLMOutputs]
    \cup [kind : {"raise"}, text : { <<"LLM timeout">> }]
    \cup [kind : {"unavailable"}, text : { << >> }]

\* What sql_validator.validate_sql_query may answer
ValidatorResponses ==
    { [kind |-> "verdict", is_valid |-> TRUE, error_message |-> None,
       warnings |-> << >>],
      [kind |-> "verdict", is_valid |-> FALSE,
       error_message |-> <<"disallowed statement type">>, warnings |-> << >>],
      [kind |-> "raise", is_valid |-> FALSE,
       error_message |-> <<"validator crashed">>, warnings |-> << >>],
      [kind |-> "raise", is_valid |-> FALSE,
       error_message |-> <<"validation timeout">>, warnings |-> << >>] }

\* What the database query tool may answer: a result text (lines), an
\* exception inside execute_query, an exception escaping it, or no tools.
ToolResults ==
    { << >>,
      <<"id|email">>,
      <<"id|email", "\n", "1|a@x">>,
      <<"id|email", "\n", "1|a@x", "\n", "2|b@x", "\n">> }

ExecutorResponses ==
    [kind : {"result"}, text : ToolResults]
    \cup [kind : {"tool_error"}, text : { <<"syntax error">> }]
    \cup [kind : {"raise"}, text : { <<"connection lost">>, <<"query timeout">> }]
    \cup [kind : {"unavailable"}, text : { << >> }]

\* What the response generation chain may answer
FormatterResponses ==
    [kind : {"ok"}, text : { <<"You have two customers.">>, <<" ">> }]
    \cup [kind : {"raise"}, text : { <<"LLM timeout">> }]
    \cup [kind : {"unavailable"}, text : { << >> }]

----------------------------------------------------------------------------
\* llm_chain.py

\* SQLGenerationChain.generate_sql: strip, drop a markdown fence, strip,
\* make the query end with a semicolon
DropOpeningFence(t) ==
    IF t # << >> /\ Head(t) = "<fence sql>" THEN Tail(t) ELSE t

DropClosingFence(t) ==
    IF t # << >> /\ t[Len(t)] = "<fence>" THEN SubSeq(t, 1, Len(t) - 1) ELSE t

\* variant: the query is returned as cleaned, with no semicolon added
generate_sql_NoSemicolon(result) ==
    Strip(DropClosingFence(DropOpeningFence(Strip(result))))

generate_sql(result) ==
    LET cleaned == Strip(DropClosingFence(DropOpeningFence(Strip(result))))
    IN  IF cleaned # << >> /\ cleaned[Len(cleaned)] = ";"
        THEN cleaned
        ELSE cleaned \o <<";">>

\* ResponseGenerationChain.generate_response
generate_response(result) == Strip(result)

----------------------------------------------------------------------------
\* postgres.py

\* number of lines of a text: the lines of result.strip()
CountLines(t) ==
    LET s == Strip(t)
    IN  1 + Cardinality({i \in 1..Len(s) : s[i] = "\n"})

\* variant: the header line is counted as a row
execute_query_CountsHeader(r) ==
    IF r.kind = "tool_error"
    THEN [success |-> FALSE, results |-> r.text, row_count |-> NoneInt]
    ELSE [success |-> TRUE, results |-> r.text,
          row_count |-> IF r.text # << >> /\ CountLines(r.text) > 1
                        THEN CountLines(r.text)
                        ELSE NoneInt]

\* DatabaseTools.execute_query: (success, result or error text, row_count)
execute_query(r) ==
    IF r.kind = "tool_error"
    THEN [success |-> FALSE, results |-> r.text, row_count |-> NoneInt]
    ELSE [success |-> TRUE, results |-> r.text,
          row_count |-> IF r.text # << >> /\ CountLines(r.text) > 1
                        THEN CountLines(r.text) - 1
                        ELSE NoneInt]

----------------------------------------------------------------------------
\* sql_agent.py: the state and the nodes

\* initial_state of process_query
InitialState(question, user_id) ==
    [question |-> question,
     user_id |-> user_id,
     current_attempt |-> 0,
     sql_query |-> None,
     validation_result |-> NoneDict,
     query_results |-> None,
     execution_success |-> FALSE,
     final_response |-> None,
     error_message |-> None,
     start_time |-> 0,
     total_execution_time |-> NoneInt,
     row_count |-> NoneInt]

\* the state while no run is in progress
NoState == InitialState(<< >>, None)

\* the second invocation before it is made
NoOther ==
    [pc |-> "idle", state |-> NoState, clock |-> 0, calls |-> << >>,
     response |-> << >>, after |-> FALSE]

initialize_state(s, now) ==
    [s EXCEPT !.current_attempt = 1,
              !.sql_query = None,
              !.validation_result = NoneDict,
              !.query_results = None,
              !.execution_success = FALSE,
              !.final_response = None,
              !.error_message = None,
              !.start_time = now,
              !.total_execution_time = NoneInt,
              !.row_count = NoneInt]

generate_sql_node(s, r) ==
    CASE r.kind = "unavailable" ->
            [s EXCEPT !.error_message = <<"LLM chains not available">>]
      [] r.kind = "ok" ->
            [s EXCEPT !.sql_query = generate_sql(r.text)]
      [] r.kind = "raise" ->
            [s EXCEPT !.error_message = <<"SQL generation failed: ">> \o r.text]

\* variant: the except branch reports the failure as one of generation
validate_sql_node_NamesGeneration(s, r) ==
    CASE ~Truthy(s.sql_query) ->
            [s EXCEPT !.error_message = <<"No SQL query to validate">>]
      [] Truthy(s.sql_query) /\ r.kind = "verdict" ->
            [s EXCEPT !.validation_result =
                <<[is_valid |-> r.is_valid,
                   error_message |-> r.error_message,
                   warnings |-> r.warnings]>>]
      [] Truthy(s.sql_query) /\ r.kind = "raise" ->
            [s EXCEPT !.error_message =
                <<"SQL generation failed: ">> \o r.error_message]

validate_sql_node(s, r) ==
    CASE ~Truthy(s.sql_query) ->
            [s EXCEPT !.error_message = <<"No SQL query to validate">>]
      [] Truthy(s.sql_query) /\ r.kind = "verdict" ->
            [s EXCEPT !.validation_result =
                <<[is_valid |-> r.is_valid,
                   error_message |-> r.error_message,
                   warnings |-> r.warnings]>>]
      [] Truthy(s.sql_query) /\ r.kind = "raise" ->
            [s EXCEPT !.error_message =
                <<"SQL validation failed: ">> \o r.error_message]

execute_sql_node(s, r) ==
    CASE ~Truthy(s.sql_query) ->
            [s EXCEPT !.error_message = <<"No SQL query to execute">>]
      [] Truthy(s.sql_query) /\ r.kind = "unavailable" ->
            [s EXCEPT !.error_message = <<"Database tools not available">>]
      [] Truthy(s.sql_query) /\ r.kind \in {"result", "tool_error"} ->
            LET out == execute_query(r)
            IN  [s EXCEPT !.execution_success = out.success,
                          !.query_results = out.results,
                          !.row_count = out.row_count]
      [] Truthy(s.sql_query) /\ r.kind = "raise" ->
            [s EXCEPT !.error_message = <<"SQL execution failed: ">> \o r.text,
                      !.execution_success = FALSE]

\* the guard of format_response_node: nothing to format
NothingToFormat(s) == ~s.execution_success \/ ~Truthy(s.query_results)

format_response_node(s, r) ==
    CASE NothingToFormat(s) ->
            [s EXCEPT !.error_message = <<"No valid query results to format">>]
      [] ~NothingToFormat(s) /\ r.kind = "unavailable" ->
            [s EXCEPT !.error_message =
                <<"LLM chains not available for response formatting">>]
      [] ~NothingToFormat(s) /\ r.kind = "ok" ->
            [s EXCEPT !.final_response = generate_response(r.text)]
      [] ~NothingToFormat(s) /\ r.kind = "raise" ->
            [s EXCEPT !.error_message =
                <<"Response formatting failed: ">> \o r.text]

finalize_state_node(s, now) ==
    [s EXCEPT !.total_execution_time = now - s.start_time]

\* variant: the results of the failed execution are kept
increment_retry_node_KeepsResults(s) ==
    [s EXCEPT !.current_attempt = s.current_attempt + 1,
              !.sql_query = None,
              !.validation_result = NoneDict,
              !.execution_success = FALSE]

\* variant: the retry restarts the run's timer
increment_retry_node_RestartsTimer(s) ==
    [s EXCEPT !.current_attempt = s.current_attempt + 1,
              !.sql_query = None,
              !.validation_result = NoneDict,
              !.query_results = None,
              !.execution_success = FALSE,
              !.start_time = 0]

increment_retry_node(s) ==
    [s EXCEPT !.current_attempt = s.current_attempt + 1,
              !.sql_query = None,
              !.validation_result = NoneDict,
              !.query_results = None,
              !.execution_success = FALSE]

----------------------------------------------------------------------------
\* sql_agent.py: the decision functions and the edges of the graph

should_validate_sql(s) ==
    IF Truthy(s.error_message) \/ ~Truthy(s.sql_query)
    THEN "error"
    ELSE "validate"

\* variant: the verdict is not looked at
should_execute_sql_IgnoresVerdict(s) ==
    IF Truthy(s.error_message) THEN "error"
    ELSE IF s.validation_result = NoneDict THEN "raise"
    ELSE "execute"

\* "raise": validation_result is None, and None has no get()
should_execute_sql(s) ==
    IF Truthy(s.error_message) THEN "error"
    ELSE IF s.validation_result = NoneDict THEN "raise"
    ELSE IF ~s.validation_result[1].is_valid THEN "retry_or_error"
    ELSE "execute"

\* variant: a recorded error is not looked at
should_format_response_IgnoresError(s) ==
    IF ~s.execution_success THEN "retry_or_error"
    ELSE "format"

should_format_response(s) ==
    IF Truthy(s.error_message) THEN "error"
    ELSE IF ~s.execution_success THEN "retry_or_error"
    ELSE "format"

\* variant: the ceiling counts the retries after the first attempt
should_retry_or_end_CountsRetries(s, ceiling) ==
    IF s.current_attempt - 1 <= ceiling THEN "retry" ELSE "error"

\* variant: the attempt about to start is counted twice
should_retry_or_end_OneFewer(s, ceiling) ==
    IF s.current_attempt + 1 < ceiling THEN "retry" ELSE "error"

\* variant: retries are given up once the run started after a deadline
should_retry_or_end_UntilDeadline(s, ceiling) ==
    IF s.current_attempt < ceiling /\ s.start_time < OtherDelay
    THEN "retry" ELSE "error"

should_retry_or_end(s, ceiling) ==
    IF s.current_attempt < ceiling THEN "retry" ELSE "error"

\* variant: a failed generation is sent to the retry node
EdgeTarget_GenerationErrorRetries(node, decision) ==
    CASE decision = "raise" -> "raised"
      [] node = "generate_sql" /\ decision = "validate" -> "validate_sql"
      [] node = "generate_sql" /\ decision = "error" -> "increment_retry"
      [] node = "validate_sql" /\ decision = "execute" -> "execute_sql"
      [] node = "validate_sql" /\ decision = "retry_or_error" -> "increment_retry"
      [] node = "validate_sql" /\ decision = "error" -> "finalize"
      [] node = "execute_sql" /\ decision = "format" -> "format_response"
      [] node = "execute_sql" /\ decision = "retry_or_error" -> "increment_retry"
      [] node = "execute_sql" /\ decision = "error" -> "finalize"
      [] node = "increment_retry" /\ decision = "retry" -> "generate_sql"
      [] node = "increment_retry" /\ decision = "error" -> "finalize"

\* variant: a failed validation is sent to the retry node
EdgeTarget_ValidationErrorRetries(node, decision) ==
    CASE decision = "raise" -> "raised"
      [] node = "generate_sql" /\ decision = "validate" -> "validate_sql"
      [] node = "generate_sql" /\ decision = "error" -> "finalize"
      [] node = "validate_sql" /\ decision = "execute" -> "execute_sql"
      [] node = "validate_sql" /\ decision = "retry_or_error" -> "increment_retry"
      [] node = "validate_sql" /\ decision = "error" -> "increment_retry"
      [] node = "execute_sql" /\ decision = "format" -> "format_response"
      [] node = "execute_sql" /\ decision = "retry_or_error" -> "increment_retry"
      [] node = "execute_sql" /\ decision = "error" -> "finalize"
      [] node = "increment_retry" /\ decision = "retry" -> "generate_sql"
      [] node = "increment_retry" /\ decision = "error" -> "finalize"

\* variant: a failed execution is tried again on the same candidate
EdgeTarget_ExecutionRetriedInPlace(node, decision) ==
    CASE decision = "raise" -> "raised"
      [] node = "generate_sql" /\ decision = "validate" -> "validate_sql"
      [] node = "generate_sql" /\ decision = "error" -> "finalize"
      [] node = "validate_sql" /\ decision = "execute" -> "execute_sql"
      [] node = "validate_sql" /\ decision = "retry_or_error" -> "increment_retry"
      [] node = "validate_sql" /\ decision = "error" -> "finalize"
      [] node = "execute_sql" /\ decision = "format" -> "format_response"
      [] node = "execute_sql" /\ decision = "retry_or_error" -> "execute_sql"
      [] node = "execute_sql" /\ decision = "error" -> "finalize"
      [] node = "increment_retry" /\ decision = "retry" -> "generate_sql"
      [] node = "increment_retry" /\ decision = "error" -> "finalize"

\* the mappings of add_conditional_edges in _create_workflow
EdgeTarget(node, decision) ==
    CASE decision = "raise" -> "raised"
      [] node = "generate_sql" /\ decision = "validate" -> "validate_sql"
      [] node = "generate_sql" /\ decision = "error" -> "finalize"
      [] node = "validate_sql" /\ decision = "execute" -> "execute_sql"
      [] node = "validate_sql" /\ decision = "retry_or_error" -> "increment_retry"
      [] node = "validate_sql" /\ decision = "error" -> "finalize"
      [] node = "execute_sql" /\ decision = "format" -> "format_response"
      [] node = "execute_sql" /\ decision = "retry_or_error" -> "increment_retry"
      [] node = "execute_sql" /\ decision = "error" -> "finalize"
      [] node = "increment_retry" /\ decision = "retry" -> "generate_sql"
      [] node = "increment_retry" /\ decision = "error" -> "finalize"

----------------------------------------------------------------------------
\* One entry of the call log: which collaborator was called, in which
\* attempt, on which candidate, how the call ended, and the text it gave
\* (the rejection reason, the failure text or the output)

Call(stage, s, result, detail) ==
    [stage |-> stage, attempt |-> s.current_attempt,
     sql |-> s.sql_query, result |-> result, detail |-> detail]

GeneratorResult(r) == IF r.kind = "ok" THEN "ok" ELSE "error"

ValidatorResult(r) ==
    IF r.kind = "raise" THEN "error"
    ELSE IF r.is_valid THEN "ok" ELSE "invalid"

ExecutorResult(r) ==
    CASE r.kind = "result" -> "ok"
      [] r.kind = "tool_error" -> "failed"
      [] r.kind \in {"raise", "unavailable"} -> "error"

FormatterResult(r) == IF r.kind = "ok" THEN "ok" ELSE "error"

----------------------------------------------------------------------------
\* SQLAgent.process_query

\* variant: a run whose query was executed counts as a success
QueryResponseOf_SuccessOnResults(final) ==
    IF final.execution_success
    THEN [success |-> TRUE,
          answer |-> final.final_response,
          sql_query |-> final.sql_query,
          row_count |-> final.row_count,
          execution_time |-> final.total_execution_time,
          error_message |-> None]
    ELSE [success |-> FALSE,
          answer |-> <<"I apologize, but I couldn't process your question: ">>
                     \o Str(final.error_message),
          sql_query |-> final.sql_query,
          row_count |-> NoneInt,
          execution_time |-> final.total_execution_time,
          error_message |-> final.error_message]

\* the response built from the final state of the graph
QueryResponseOf(final) ==
    IF Truthy(final.final_response)
    THEN [success |-> TRUE,
          answer |-> final.final_response,
          sql_query |-> final.sql_query,
          row_count |-> final.row_count,
          execution_time |-> final.total_execution_time,
          error_message |-> None]
    ELSE [success |-> FALSE,
          answer |-> <<"I apologize, but I couldn't process your question: ">>
                     \o Str(final.error_message),
          sql_query |-> final.sql_query,
          row_count |-> NoneInt,
          execution_time |-> final.total_execution_time,
          error_message |-> final.error_message]

\* the response of the except branch
CriticalErrorResponse ==
    [success |-> FALSE,
     answer |-> <<"I encountered a technical error while processing your question. Please try again later.">>,
     sql_query |-> None,
     row_count |-> NoneInt,
     execution_time |-> NoneInt,
     error_message |-> <<"Agent workflow failed: ">>]

----------------------------------------------------------------------------
\* The state machine

\* sql_agent.py: the global agent once SQLAgent() has been constructed
TheAgent == <<"SQLAgent">>

\* main.py: app_state as the module is loaded
NoQueriesYet ==
    [total_queries_processed |-> 0,
     successful_queries |-> 0,
     failed_queries |-> 0]

\* the /query requests before any has arrived
RequestIds == 1..MaxRequests
NotArrived ==
    [i \in RequestIds |->
        [at |-> "waiting", status |-> 0, success |-> FALSE,
         processed |-> FALSE, detail |-> << >>]]

\* generate_sql_node before it is entered
NoGeneration ==
    [at |-> "idle", state |-> NoState, schema_failed |-> FALSE,
     schema_info |-> None, prompt |-> << >>, output |-> << >>,
     decision |-> "none"]

Init ==
    /\ MAX_SQL_RETRIES \in 1..MaxCeiling
    /\ pc = "idle"
    /\ state = NoState
    /\ clock = 0
    /\ calls = << >>
    /\ response = << >>
    /\ other = NoOther
    /\ sql_agent = TheAgent
    /\ app_state = NoQueriesYet
    /\ requests = NotArrived
    /\ generation = NoGeneration
    /\ query_history = << >>
    /\ added = << >>

\* process_query up to app.invoke(initial_state)
ProcessQuery ==
    /\ pc \in {"idle", "returned"}
    /\ \E question \in Questions, user_id \in UserIds :
          state' = InitialState(question, user_id)
    /\ clock' = 0
    /\ calls' = << >>
    /\ response' = << >>
    /\ pc' = "initialize"
    /\ UNCHANGED <<MAX_SQL_RETRIES, other, api, generation, session>>

Initialize ==
    /\ pc = "initialize"
    /\ state' = initialize_state(state, clock + 1)
    /\ clock' = clock + 1
    /\ pc' = "generate_sql"
    /\ UNCHANGED <<MAX_SQL_RETRIES, calls, response, other, api, generation, session>>

GenerateSql ==
    /\ pc = "generate_sql"
    /\ \E r \in GeneratorResponses :
          /\ state' = generate_sql_node(state, r)
          /\ calls' = Append(calls, Call("generator", state', GeneratorResult(r), r.text))
    /\ pc' = EdgeTarget("generate_sql", should_validate_sql(state'))
    /\ clock' = clock + 1
    /\ UNCHANGED <<MAX_SQL_RETRIES, response, other, api, generation, session>>

ValidateSql ==
    /\ pc = "validate_sql"
    /\ \E r \in ValidatorResponses :
          /\ state' = validate_sql_node(state, r)
          /\ calls' = IF Truthy(state.sql_query)
                      THEN Append(calls, Call("validator", state, ValidatorResult(r),
                                       r.error_message))
                      ELSE calls
    /\ pc' = EdgeTarget("validate_sql", should_execute_sql(state'))
    /\ clock' = clock + 1
    /\ UNCHANGED <<MAX_SQL_RETRIES, response, other, api, generation, session>>

ExecuteSql ==
    /\ pc = "execute_sql"
    /\ \E r \in ExecutorResponses :
          /\ state' = execute_sql_node(state, r)
          /\ calls' = IF Truthy(state.sql_query)
                      THEN Append(calls, Call("executor", state, ExecutorResult(r), r.text))
                      ELSE calls
    /\ pc' = EdgeTarget("execute_sql", should_format_response(state'))
    /\ clock' = clock + 1
    /\ UNCHANGED <<MAX_SQL_RETRIES, response, other, api, generation, session>>

\* variant: a failed formatting is sent to the retry node
FormatResponse_FailureRetries ==
    /\ pc = "format_response"
    /\ \E r \in FormatterResponses :
          /\ state' = format_response_node(state, r)
          /\ calls' = IF NothingToFormat(state)
                      THEN calls
                      ELSE Append(calls, Call("formatter", state, FormatterResult(r),
                                       r.text))
    /\ pc' = IF Truthy(state'.error_message) THEN "increment_retry" ELSE "finalize"
    /\ clock' = clock + 1
    /\ UNCHANGED <<MAX_SQL_RETRIES, response, other, api, generation, session>>

FormatResponse ==
    /\ pc = "format_response"
    /\ \E r \in FormatterResponses :
          /\ state' = format_response_node(state, r)
          /\ calls' = IF NothingToFormat(state)
                      THEN calls
                      ELSE Append(calls, Call("formatter", state, FormatterResult(r),
                                       r.text))
    /\ pc' = "finalize"
    /\ clock' = clock + 1
    /\ UNCHANGED <<MAX_SQL_RETRIES, response, other, api, generation, session>>

IncrementRetry ==
    /\ pc = "increment_retry"
    /\ state' = increment_retry_node(state)
    /\ pc' = EdgeTarget("increment_retry",
                        should_retry_or_end(state', MAX_SQL_RETRIES))
    /\ clock' = clock + 1
    /\ UNCHANGED <<MAX_SQL_RETRIES, calls, response, other, api, generation, session>>

Finalize ==
    /\ pc = "finalize"
    /\ state' = finalize_state_node(state, clock + 1)
    /\ clock' = clock + 1
    /\ pc' = "END"
    /\ UNCHANGED <<MAX_SQL_RETRIES, calls, response, other, api, generation, session>>

\* variant: process_query without its except branch
ProcessQueryReturn_NoExcept ==
    /\ pc = "END"
    /\ response' = <<QueryResponseOf(state)>>
    /\ pc' = "returned"
    /\ UNCHANGED <<MAX_SQL_RETRIES, state, clock, calls, other, api, generation, session>>

\* process_query after app.invoke: the response, or the except branch
ProcessQueryReturn ==
    /\ pc \in {"END", "raised"}
    /\ response' = IF pc = "END"
                   THEN <<QueryResponseOf(state)>>
                   ELSE <<CriticalErrorResponse>>
    /\ pc' = "returned"
    /\ UNCHANGED <<MAX_SQL_RETRIES, state, clock, calls, other, api, generation, session>>

\* a step of a run in progress
RunStep ==
    \/ Initialize
    \/ GenerateSql
    \/ ValidateSql
    \/ ExecuteSql
    \/ FormatResponse
    \/ IncrementRetry
    \/ Finalize
    \/ ProcessQueryReturn

Next ==
    \/ ProcessQuery
    \/ RunStep

Spec == Init /\ [][Next]_vars

\* The graph engine runs a started workflow to its end: every collaborator
\* call returns or raises.
FairSpec == Spec /\ WF_vars(RunStep)

----------------------------------------------------------------------------
\* The workflow engine failing

\* the nodes of the graph
GraphNodes ==
    {"initialize", "generate_sql", "validate_sql", "execute_sql",
     "format_response", "increment_retry", "finalize"}

\* app.invoke raises instead of running the next node (an error of the
\* graph engine itself, such as its recursion limit); process_query catches
\* it in its except branch
InvokeRaises ==
    /\ pc \in GraphNodes
    /\ pc' = "raised"
    /\ UNCHANGED <<MAX_SQL_RETRIES, state, clock, calls, response, other, api, generation, session>>

FaultNext ==
    \/ Next
    \/ InvokeRaises

\* Runs in which the engine may fail at any node; a started run still
\* takes its steps.
FaultSpec == Init /\ [][FaultNext]_vars /\ WF_vars(RunStep)

----------------------------------------------------------------------------
\* Reading the call log and the result

CallsOf(stage) == {i \in DOMAIN calls : calls[i].stage = stage}
GeneratorCalls == Cardinality(CallsOf("generator"))
ValidatorCalls == Cardinality(CallsOf("validator"))
ExecutorCalls == Cardinality(CallsOf("executor"))
FormatterCalls == Cardinality(CallsOf("formatter"))

\* every call made to the stage so far ended with the given result
Every(stage, result) == \A i \in CallsOf(stage) : calls[i].result = result

LastCall == calls[Len(calls)]

Returned == pc = "returned"
Result == response[1]

\* the run is past its last stage: finalising, finished or returned
Terminating == pc \in {"finalize", "END", "returned"}

\* the text msg contains the text part
Mentions(msg, part) ==
    /\ msg # None
    /\ \E i \in 1..(Len(msg) + 1) :
          /\ i + Len(part) - 1 <= Len(msg)
          /\ SubSeq(msg, i, i + Len(part) - 1) = part

----------------------------------------------------------------------------
\* C1: every started run of process_query ends with a returned result,
\* whatever the collaborators answer, and it never makes more Generator
\* calls than MAX_SQL_RETRIES.
C1_TerminatesWithinCeiling ==
    /\ [](GeneratorCalls <= MAX_SQL_RETRIES)
    /\ (pc = "initialize") ~> (Returned /\ response # << >>)

\* a run that retried and came to its end
C1_Witness ==
    /\ Returned
    /\ GeneratorCalls >= 2
    /\ ~Result.success

\* C2: a failed Generator call (exception or no LLM chain) is the last
\* collaborator call of its run, the run goes straight to its error end,
\* and when it is the call of attempt 1 it is the only Generator call.
C2_GeneratorFailureIsFinal ==
    \A i \in CallsOf("generator") :
        calls[i].result = "error" =>
            /\ i = Len(calls)
            /\ Terminating
            /\ state.current_attempt = calls[i].attempt
            /\ Returned => ~Result.success
            /\ calls[i].attempt = 1 => GeneratorCalls = 1

\* the Generator failed in a later attempt and the run returned
C2_Witness ==
    /\ Returned
    /\ Len(calls) >= 3
    /\ LastCall.stage = "generator"
    /\ LastCall.result = "error"
    /\ LastCall.attempt >= 2

\* C3: when the Generator always succeeds and the Validator rejects every
\* candidate, the run returns a failure after exactly MAX_SQL_RETRIES
\* Generator calls and as many Validator calls, without any Executor or
\* Formatter call.
C3_AlwaysInvalidUsesWholeBudget ==
    (/\ Returned
     /\ ValidatorCalls >= 1
     /\ Every("generator", "ok")
     /\ Every("validator", "invalid"))
    => /\ ~Result.success
       /\ GeneratorCalls = MAX_SQL_RETRIES
       /\ ValidatorCalls = MAX_SQL_RETRIES
       /\ ExecutorCalls = 0
       /\ FormatterCalls = 0

\* C4: a rejected candidate or a failed execution in an attempt below
\* MAX_SQL_RETRIES is followed by another Generator call (the run does not
\* go to its end from there); and a run whose Validator rejects attempts
\* 1..MAX_SQL_RETRIES-1 and accepts the last one, with the Executor and the
\* Formatter succeeding, returns success in attempt MAX_SQL_RETRIES.
C4_RecoverableFailureBelowCeilingRetries ==
    /\ (/\ calls # << >>
        /\ LastCall.result \in {"invalid", "failed"}
        /\ LastCall.attempt < MAX_SQL_RETRIES)
       => ~Terminating
    /\ (/\ Returned
        /\ ValidatorCalls = MAX_SQL_RETRIES
        /\ \A i \in CallsOf("validator") :
              calls[i].result =
                 (IF calls[i].attempt < MAX_SQL_RETRIES THEN "invalid" ELSE "ok")
        /\ Every("generator", "ok")
        /\ ExecutorCalls >= 1 /\ Every("executor", "ok")
        /\ FormatterCalls >= 1 /\ Every("formatter", "ok")
        /\ Truthy(state.final_response))
       => /\ Result.success
          /\ state.current_attempt = MAX_SQL_RETRIES

\* C5: with MAX_SQL_RETRIES = 3, when the Generator and the Validator
\* succeed and every execution fails, the run returns a failure after
\* exactly 3 Generator calls, exactly 3 Executor calls and no Formatter
\* call.
C5_ExecutorAlwaysFailsThreeAttempts ==
    (/\ MAX_SQL_RETRIES = DefaultMaxSqlRetries
     /\ Returned
     /\ ExecutorCalls >= 1
     /\ Every("generator", "ok")
     /\ Every("validator", "ok")
     /\ Every("executor", "failed"))
    => /\ ~Result.success
       /\ GeneratorCalls = 3
       /\ ExecutorCalls = 3
       /\ FormatterCalls = 0

\* C6: a run that ends because its retries are used up returns an
\* error_message that carries the last recoverable reason: the Validator's
\* rejection reason, or the Executor's failure text.
C6_ExhaustionCarriesLastReason ==
    (/\ Returned
     /\ calls # << >>
     /\ LastCall.result \in {"invalid", "failed"})
    => /\ ~Result.success
       /\ Mentions(Result.error_message, LastCall.detail)

\* C7: every returned failure has a non-empty error_message, and its answer
\* is the apology text followed by that message.
C7_FailureHasErrorMessage ==
    (Returned /\ ~Result.success)
    => /\ Truthy(Result.error_message)
       /\ Result.answer =
             <<"I apologize, but I couldn't process your question: ">>
             \o Result.error_message

\* C8: the attempt counter is never above MAX_SQL_RETRIES, for every
\* positive setting, 1 included.
C8_AttemptWithinCeiling ==
    state.current_attempt <= MAX_SQL_RETRIES

\* C9: the Executor is called only on the candidate the Validator accepted
\* just before, in the same attempt; after a rejection the run is in the
\* retry node or has gone through it, with no error recorded and nothing
\* executed for that candidate.
C9_OnlyValidatedCandidatesExecuted ==
    /\ \A i \in CallsOf("executor") :
          /\ i > 1
          /\ calls[i - 1].stage = "validator"
          /\ calls[i - 1].result = "ok"
          /\ calls[i - 1].attempt = calls[i].attempt
          /\ calls[i - 1].sql = calls[i].sql
    /\ \A i \in CallsOf("validator") :
          calls[i].result = "invalid" =>
             /\ i < Len(calls) => calls[i + 1].stage = "generator"
             /\ i = Len(calls) =>
                   /\ state.error_message = None
                   /\ \/ pc = "increment_retry"
                      \/ state.current_attempt = calls[i].attempt + 1

\* the Executor ran in a second attempt, after the first candidate had been
\* rejected
C9_Witness ==
    \E i \in CallsOf("validator"), j \in CallsOf("executor") :
        /\ i < j
        /\ calls[i].result = "invalid"
        /\ calls[j].attempt = 2

\* C10: whenever the Generator is about to be called, in the first attempt
\* or in a retry, the candidate, the verdict, the execution results, the
\* execution flag, the row count and the error are all empty.
C10_GenerateStartsClean ==
    pc = "generate_sql" =>
        /\ state.sql_query = None
        /\ state.validation_result = NoneDict
        /\ state.query_results = None
        /\ ~state.execution_success
        /\ state.row_count = NoneInt
        /\ state.error_message = None

\* a retry is about to call the Generator after an execution that failed
C10_Witness ==
    /\ pc = "generate_sql"
    /\ state.current_attempt >= 2
    /\ calls # << >>
    /\ LastCall.stage = "executor"
    /\ LastCall.result = "failed"

\* C11: an execution that failed (succeeded = false) in an attempt below
\* MAX_SQL_RETRIES is followed by another Generator call: the run neither
\* ends nor formats from there; and the Formatter is never called in an
\* attempt whose execution failed.
C11_FailedExecutionRetries ==
    /\ (/\ calls # << >>
        /\ LastCall.stage = "executor"
        /\ LastCall.result = "failed"
        /\ LastCall.attempt < MAX_SQL_RETRIES)
       => /\ pc \in {"increment_retry", "generate_sql"}
          /\ state.error_message = None
    /\ \A i \in CallsOf("formatter") :
          /\ calls[i - 1].stage = "executor"
          /\ calls[i - 1].result = "ok"

\* C12: a failure of the Executor adapter itself (an exception, or no
\* database tools) in an attempt below MAX_SQL_RETRIES is followed by a
\* retry, as a failed execution is: the run does not go to its error end.
C12_ExecutorAdapterFailureRetries ==
    (/\ calls # << >>
     /\ LastCall.stage = "executor"
     /\ LastCall.result = "error"
     /\ LastCall.attempt < MAX_SQL_RETRIES)
    => pc \in {"increment_retry", "generate_sql"}

\* C13: a Validator call that raised is the last collaborator call of its
\* run, in any attempt: the run goes straight to its error end in the same
\* attempt (no retry is used), it returns a failure, and neither the
\* Executor nor the Formatter is called after it.
C13_ValidatorFailureIsFinal ==
    \A i \in CallsOf("validator") :
        calls[i].result = "error" =>
            /\ i = Len(calls)
            /\ Terminating
            /\ state.current_attempt = calls[i].attempt
            /\ Truthy(state.error_message)
            /\ Returned => ~Result.success

\* the Validator raised in a second attempt and the run returned
C13_Witness ==
    /\ Returned
    /\ LastCall.stage = "validator"
    /\ LastCall.result = "error"
    /\ LastCall.attempt >= 2
    /\ ~Result.success

\* C14: a timeout of the validation or of the execution stage in an
\* attempt below MAX_SQL_RETRIES is followed by a retry, while a timeout of
\* the generation or of the formatting stage sends the run to its error
\* end.
C14_TimeoutPolicy ==
    (/\ calls # << >>
     /\ LastCall.result = "error"
     /\ LastCall.detail \in TimeoutTexts)
    => /\ (LastCall.stage \in {"validator", "executor"}
           /\ LastCall.attempt < MAX_SQL_RETRIES)
          => pc \in {"increment_retry", "generate_sql"}
       /\ LastCall.stage \in {"generator", "formatter"} => Terminating

\* C15: the Formatter is called at most once in a run and its call is the
\* last collaborator call: after it the run only finalises, whatever the
\* Formatter answered, and a Formatter that failed gives a returned failure.
C15_FormatterCalledOnceAndLast ==
    /\ FormatterCalls <= 1
    /\ \A i \in CallsOf("formatter") :
          /\ i = Len(calls)
          /\ Terminating
          /\ state.current_attempt = calls[i].attempt
          /\ (calls[i].result = "error" /\ Returned) => ~Result.success

\* the Formatter failed in a second attempt and the run returned
C15_Witness ==
    /\ Returned
    /\ LastCall.stage = "formatter"
    /\ LastCall.result = "error"
    /\ LastCall.attempt >= 2
    /\ ~Result.success

\* C16: after an execution that succeeded, whatever its payload (an empty
\* result set included), the next collaborator call is the Formatter's; and
\* a run whose Formatter returned an answer without failing returns
\* success.
C16_SuccessfulExecutionIsFormatted ==
    /\ (/\ calls # << >>
        /\ LastCall.stage = "executor"
        /\ LastCall.result = "ok")
       => /\ pc = "format_response"
          /\ state.query_results = LastCall.detail
    /\ (/\ Returned
        /\ LastCall.stage = "formatter"
        /\ LastCall.result = "ok")
       => Result.success

\* C17: a returned success has no error_message; its answer is the output
\* of the Formatter call that ended the run; its sql_query is the candidate
\* that the Validator accepted and the Executor ran in the final attempt;
\* and its row_count is the one execute_query gave for that execution (a
\* header line and two rows give 2).
C17_SuccessfulResultFields ==
    (Returned /\ Result.success) =>
        /\ Len(calls) >= 4
        /\ LET f == calls[Len(calls)]
               e == calls[Len(calls) - 1]
               v == calls[Len(calls) - 2]
               g == calls[Len(calls) - 3]
           IN  /\ f.stage = "formatter" /\ f.result = "ok"
               /\ e.stage = "executor" /\ e.result = "ok"
               /\ v.stage = "validator" /\ v.result = "ok"
               /\ g.stage = "generator" /\ g.result = "ok"
               /\ {f.attempt, e.attempt, v.attempt, g.attempt}
                     = {state.current_attempt}
               /\ Result.error_message = None
               /\ Result.answer = generate_response(f.detail)
               /\ Truthy(Result.sql_query)
               /\ Result.sql_query = e.sql
               /\ Result.sql_query = v.sql
               /\ Result.sql_query = g.sql
               /\ Result.row_count =
                     execute_query([kind |-> "result", text |-> e.detail]).row_count
               /\ e.detail = <<"id|email", "\n", "1|a@x", "\n", "2|b@x", "\n">>
                     => Result.row_count = 2

\* a second attempt executed a query that gave two rows and the run
\* returned success
C17_Witness ==
    /\ Returned
    /\ Result.success
    /\ Result.row_count = 2
    /\ state.current_attempt = 2

\* C18: a returned failure has no row_count, and its sql_query is the
\* candidate of the attempt in which the run failed (None only when that
\* attempt generated no candidate).
C18_FailedResultFields ==
    (Returned /\ ~Result.success /\ calls # << >>) =>
        /\ Result.row_count = NoneInt
        /\ Result.sql_query = LastCall.sql

\* the first collaborator call made to the stage
FirstCallOf(stage) ==
    CHOOSE i \in CallsOf(stage) : \A j \in CallsOf(stage) : i <= j

C20_ProcessQueryAlwaysReturns ==
    /\ [](Returned => (response # << >> /\ Result.success \in BOOLEAN))
    /\ [](pc = "raised" => ENABLED ProcessQueryReturn)
    /\ []((Returned /\ \E i \in DOMAIN calls : calls[i].result = "error")
            => ~Result.success)
    /\ [][pc = "raised" => (pc' = "returned" /\ ~response'[1].success)]_vars
    /\ (pc \in GraphNodes \cup {"END", "raised"}) ~> Returned

\* the engine raised after a collaborator call and process_query returned
\* the response of its except branch
C20_Witness ==
    /\ Returned
    /\ calls # << >>
    /\ Result = CriticalErrorResponse

\* C21: a call of process_query with an empty question is rejected before
\* the workflow is entered: no node runs and no collaborator is called for
\* it.
C21_EmptyQuestionRejected ==
    (pc # "idle" /\ ~Truthy(state.question))
    => /\ calls = << >>
       /\ Returned => ~Result.success

----------------------------------------------------------------------------
\* Two invocations on the shared agent
\*
\* The module-level sql_agent serves every caller.  process_query builds
\* initial_state as a local dictionary and hands it to self.app.invoke, so a
\* second invocation has a state, a position and a result of its own; the
\* variable other holds them.  The two invocations take their steps in any
\* order.

\* no collaborator is asked by the node
NoResponse == [kind |-> "none", text |-> << >>]

\* one step of an invocation, as the compiled graph takes it: the node at
\* run.pc is applied to the state with the collaborator's response r, the
\* call is logged, and the edge out of the node is followed; at END
\* process_query builds its response
NodeStep(run, r, ceiling) ==
    LET s == run.state
        now == run.clock + 1
    IN  CASE run.pc = "initialize" ->
               [run EXCEPT !.state = initialize_state(s, now),
                           !.clock = now,
                           !.pc = "generate_sql"]
          [] run.pc = "generate_sql" ->
               LET t == generate_sql_node(s, r)
               IN  [run EXCEPT
                      !.state = t,
                      !.calls = Append(@, Call("generator", t,
                                               GeneratorResult(r), r.text)),
                      !.clock = now,
                      !.pc = EdgeTarget("generate_sql", should_validate_sql(t))]
          [] run.pc = "validate_sql" ->
               LET t == validate_sql_node(s, r)
               IN  [run EXCEPT
                      !.state = t,
                      !.calls = IF Truthy(s.sql_query)
                                THEN Append(@, Call("validator", s,
                                                    ValidatorResult(r),
                                                    r.error_message))
                                ELSE @,
                      !.clock = now,
                      !.pc = EdgeTarget("validate_sql", should_execute_sql(t))]
          [] run.pc = "execute_sql" ->
               LET t == execute_sql_node(s, r)
               IN  [run EXCEPT
                      !.state = t,
                      !.calls = IF Truthy(s.sql_query)
                                THEN Append(@, Call("executor", s,
                                                    ExecutorResult(r), r.text))
                                ELSE @,
                      !.clock = now,
                      !.pc = EdgeTarget("execute_sql",
                                        should_format_response(t))]
          [] run.pc = "format_response" ->
               [run EXCEPT
                  !.state = format_response_node(s, r),
                  !.calls = IF NothingToFormat(s)
                            THEN @
                            ELSE Append(@, Call("formatter", s,
                                                FormatterResult(r), r.text)),
                  !.clock = now,
                  !.pc = "finalize"]
          [] run.pc = "increment_retry" ->
               LET t == increment_retry_node(s)
               IN  [run EXCEPT
                      !.state = t,
                      !.clock = now,
                      !.pc = EdgeTarget("increment_retry",
                                        should_retry_or_end(t, ceiling))]
          [] run.pc = "finalize" ->
               [run EXCEPT !.state = finalize_state_node(s, now),
                           !.clock = now,
                           !.pc = "END"]
          [] run.pc = "END" ->
               [run EXCEPT !.response = <<QueryResponseOf(s)>>,
                           !.pc = "returned"]

\* What the second invocation is asked, and by whom
OtherQuestions == { <<"Show all customers">> }
OtherUserIds == { <<"u2">> }

\* What the collaborators answer to the second invocation
OtherResponses(node) ==
    CASE node = "generate_sql" ->
            {r \in GeneratorResponses :
                r.text \in { <<"SELECT a", ";">>, <<"LLM timeout">> }}
      [] node = "validate_sql" ->
            {r \in ValidatorResponses : r.kind = "verdict"}
      [] node = "execute_sql" ->
            {r \in ExecutorResponses :
                \/ r.kind = "tool_error"
                \/ r.text = <<"id|email", "\n", "1|a@x", "\n", "2|b@x", "\n">>}
      [] node = "format_response" ->
            {r \in FormatterResponses : r.text = <<"You have two customers.">>}
      [] OTHER -> {NoResponse}

\* variant: the agent keeps one state dictionary, which the second
\* invocation takes over with its own question and user
OtherProcessQuery_SharedState ==
    /\ other.pc \in {"idle", "returned"}
    /\ \E question \in OtherQuestions, user_id \in OtherUserIds :
          other' = [pc |-> "initialize",
                    state |-> [state EXCEPT !.question = question,
                                            !.user_id = user_id],
                    clock |-> OtherDelay,
                    calls |-> << >>,
                    response |-> << >>,
                    after |-> (pc = "returned")]
    /\ UNCHANGED <<MAX_SQL_RETRIES, pc, state, clock, calls, response, api, generation, session>>

\* the second invocation of process_query, up to app.invoke(initial_state);
\* after records whether the first invocation had returned by then
OtherProcessQuery ==
    /\ other.pc \in {"idle", "returned"}
    /\ \E question \in OtherQuestions, user_id \in OtherUserIds :
          other' = [pc |-> "initialize",
                    state |-> InitialState(question, user_id),
                    clock |-> OtherDelay,
                    calls |-> << >>,
                    response |-> << >>,
                    after |-> (pc = "returned")]
    /\ UNCHANGED <<MAX_SQL_RETRIES, pc, state, clock, calls, response, api, generation, session>>

\* variant: the attempt counter is kept on the agent, so the retry node of
\* the second invocation also writes the counter of the first
OtherRunStep_SharedCounter ==
    /\ other.pc \in GraphNodes \cup {"END"}
    /\ \E r \in OtherResponses(other.pc) :
          other' = NodeStep(other, r, MAX_SQL_RETRIES)
    /\ state' = IF other.pc = "increment_retry"
                THEN [state EXCEPT
                        !.current_attempt = other'.state.current_attempt]
                ELSE state
    /\ UNCHANGED <<MAX_SQL_RETRIES, pc, clock, calls, response, api, generation, session>>

\* a step of the second invocation
OtherRunStep ==
    /\ other.pc \in GraphNodes \cup {"END"}
    /\ \E r \in OtherResponses(other.pc) :
          other' = NodeStep(other, r, MAX_SQL_RETRIES)
    /\ UNCHANGED <<MAX_SQL_RETRIES, pc, state, clock, calls, response, api, generation, session>>

\* the agent with the default setting
AgentInit ==
    /\ Init
    /\ MAX_SQL_RETRIES = DefaultMaxSqlRetries

AgentNext ==
    \/ Next
    \/ OtherProcessQuery
    \/ OtherRunStep

AgentSpec == AgentInit /\ [][AgentNext]_vars

\* the answers a stage gave in the calls of a log, in order
Answers(log, stage) ==
    LET made == SelectSeq(log, LAMBDA c : c.stage = stage)
    IN  [i \in DOMAIN made |-> <<made[i].result, made[i].detail>>]

\* two logs in which every stage gave the same answers, call by call
SameAnswers(a, b) ==
    \A stage \in {"generator", "validator", "executor", "formatter"} :
        LET x == Answers(a, stage)
            y == Answers(b, stage)
        IN  \A i \in DOMAIN x \cap DOMAIN y : x[i] = y[i]

\* C22: two invocations with the same question whose collaborators give
\* the same answers make the same sequence of stage calls (same stage,
\* attempt and candidate, call by call) and return the same success,
\* answer and sql_query, whoever asks and whenever.
C22_SameAnswersSameRun ==
    (/\ pc = "returned"
     /\ other.pc = "returned"
     /\ state.question = other.state.question
     /\ SameAnswers(calls, other.calls))
    => /\ calls = other.calls
       /\ Result.success = other.response[1].success
       /\ Result.answer = other.response[1].answer
       /\ Result.sql_query = other.response[1].sql_query

\* two returned invocations of different users, started at different
\* times, that were given the same answers through a retry
C22_Witness ==
    /\ pc = "returned"
    /\ other.pc = "returned"
    /\ state.question = other.state.question
    /\ state.user_id # other.state.user_id
    /\ state.start_time # other.state.start_time
    /\ SameAnswers(calls, other.calls)
    /\ Len(calls) >= 6
    /\ Result.success

\* the first invocation, read as one record
First ==
    [pc |-> pc, state |-> state, clock |-> clock, calls |-> calls,
     response |-> response]

\* the invocation is at its start with nothing left of any earlier one
StartsFresh(run) ==
    /\ run.pc = "initialize" =>
          /\ run.state = InitialState(run.state.question, run.state.user_id)
          /\ run.calls = << >>
          /\ run.response = << >>
    /\ (run.pc = "generate_sql" /\ run.calls = << >>) =>
          /\ run.state.current_attempt = 1
          /\ run.state.sql_query = None
          /\ run.state.validation_result = NoneDict
          /\ run.state.query_results = None
          /\ ~run.state.execution_success
          /\ run.state.row_count = NoneInt
          /\ run.state.final_response = None
          /\ run.state.error_message = None
          /\ run.state.total_execution_time = NoneInt
          /\ run.response = << >>

\* C23: no workflow state carries over between invocations: every
\* invocation enters the workflow with the initial state of its own request
\* and reaches its first Generator call with attempt 1 and empty candidate,
\* verdict, outcome, answer and error, however an earlier invocation ended.
C23_NothingCarriesOver ==
    /\ StartsFresh(First)
    /\ StartsFresh(other)

\* an invocation made after another one had returned a failure reached
\* after a retry, standing before its first Generator call
C23_Witness ==
    /\ other.after
    /\ other.pc = "generate_sql"
    /\ other.calls = << >>
    /\ pc = "returned"
    /\ ~Result.success
    /\ state.current_attempt >= 2
    /\ state.sql_query = None

\* the node that calls the stage
NodeOf(stage) ==
    CASE stage = "generator" -> "generate_sql"
      [] stage = "validator" -> "validate_sql"
      [] stage = "executor" -> "execute_sql"
      [] stage = "formatter" -> "format_response"

\* the collaborator's response that a logged call received
ResponseOf(c) ==
    CASE c.stage = "generator" ->
            CHOOSE r \in GeneratorResponses :
                GeneratorResult(r) = c.result /\ r.text = c.detail
      [] c.stage = "validator" ->
            CHOOSE r \in ValidatorResponses :
                ValidatorResult(r) = c.result /\ r.error_message = c.detail
      [] c.stage = "executor" ->
            CHOOSE r \in ExecutorResponses :
                ExecutorResult(r) = c.result /\ r.text = c.detail
      [] c.stage = "formatter" ->
            CHOOSE r \in FormatterResponses :
                FormatterResult(r) = c.result /\ r.text = c.detail

\* the node at run.pc runs without asking a collaborator
Silent(run) ==
    \/ run.pc \in {"initialize", "increment_retry", "finalize", "END"}
    \/ run.pc = "format_response" /\ NothingToFormat(run.state)

\* the invocation run alone from its start, given the answers of log
RECURSIVE Alone(_, _, _)
Alone(run, log, ceiling) ==
    IF log = << >> THEN run
    ELSE IF Silent(run)
         THEN Alone(NodeStep(run, NoResponse, ceiling), log, ceiling)
    ELSE IF run.pc = NodeOf(Head(log).stage)
         THEN Alone(NodeStep(run, ResponseOf(Head(log)), ceiling),
                    Tail(log), ceiling)
    ELSE run

\* target is where run stands or comes to by nodes that ask no collaborator
RECURSIVE ComesTo(_, _, _)
ComesTo(run, target, ceiling) ==
    \/ run = target
    \/ /\ Silent(run)
       /\ ComesTo(NodeStep(run, NoResponse, ceiling), target, ceiling)

\* the start of the invocation that run belongs to, its clock reading from
\* the given time
StartOf(run, from) ==
    [run EXCEPT !.pc = "initialize",
                !.state = InitialState(run.state.question, run.state.user_id),
                !.clock = from,
                !.calls = << >>,
                !.response = << >>]

\* the invocation is where it would be had it run alone with the answers
\* it was given
AsIfAlone(run, from, ceiling) ==
    run.pc # "idle" =>
        ComesTo(Alone(StartOf(run, from), run.calls, ceiling), run, ceiling)

\* C24: two invocations of process_query on the shared agent, their nodes
\* interleaved in any order, share no workflow field: the attempt counter,
\* candidate, verdict, outcome, position, log and result of each are those
\* it has when run alone with the same collaborator answers.
C24_InterleavedRunsAreIsolated ==
    /\ AsIfAlone(First, 0, MAX_SQL_RETRIES)
    /\ AsIfAlone(other, OtherDelay, MAX_SQL_RETRIES)

\* both invocations are under way, in different attempts and at different
\* nodes, the second one having started while the first was running
C24_Witness ==
    /\ pc = "execute_sql"
    /\ state.current_attempt = 2
    /\ other.pc = "validate_sql"
    /\ other.state.current_attempt = 1
    /\ ~other.after
    /\ state.sql_query # other.state.sql_query

\* the place of a stage in an attempt
StageRank(stage) ==
    CASE stage = "generator" -> 1
      [] stage = "validator" -> 2
      [] stage = "executor" -> 3
      [] stage = "formatter" -> 4

\* C25: the stages run one after the other with no retry inside an
\* attempt: the attempts of the logged calls never go down, within one
\* attempt the Generator, the Validator and the Executor are each called at
\* most once and in that order, the Validator is called only right after
\* the Generator succeeded in the same attempt and on its candidate, the
\* Executor only right after the Validator accepted that candidate in the
\* same attempt, and neither is called more often than the Generator.
C25_StagesSequentialOncePerAttempt ==
    /\ \A i, j \in DOMAIN calls :
          i < j =>
             /\ calls[i].attempt <= calls[j].attempt
             /\ calls[i].attempt = calls[j].attempt =>
                   StageRank(calls[i].stage) < StageRank(calls[j].stage)
    /\ \A j \in DOMAIN calls :
          calls[j].stage \in {"validator", "executor"} =>
             /\ j > 1
             /\ StageRank(calls[j - 1].stage) = StageRank(calls[j].stage) - 1
             /\ calls[j - 1].result = "ok"
             /\ calls[j - 1].attempt = calls[j].attempt
             /\ calls[j - 1].sql = calls[j].sql
    /\ ValidatorCalls <= GeneratorCalls
    /\ ExecutorCalls <= ValidatorCalls

\* a returned run of two attempts in which every stage up to the Executor
\* was called in both
C25_Witness ==
    /\ Returned
    /\ ExecutorCalls = 2
    /\ ValidatorCalls = 2
    /\ GeneratorCalls = 2
    /\ calls[1].attempt = 1
    /\ LastCall.attempt = 2

\* the run has recorded an error
ErrorRecorded == pc # "idle" /\ Truthy(state.error_message)

\* C26: the error of a run is set at most once: from the moment
\* error_message is set the run only finalises and returns, no further
\* collaborator call is made, error_message is neither overwritten nor
\* cleared, and the run comes to return a failure that carries this error.
C26_ErrorSetOnceAndFinal ==
    /\ [](ErrorRecorded =>
            /\ Terminating
            /\ Returned =>
                  /\ ~Result.success
                  /\ Result.error_message = state.error_message)
    /\ [][(ErrorRecorded /\ ~Returned) =>
            /\ state'.error_message = state.error_message
            /\ calls' = calls
            /\ pc' \in {"END", "returned"}]_vars
    /\ (ErrorRecorded /\ ~Returned) ~> (Returned /\ ~Result.success)

\* the Executor raised in the second attempt and the run still has to
\* finalise and return
C26_Witness ==
    /\ ErrorRecorded
    /\ pc = "finalize"
    /\ LastCall.stage = "executor"
    /\ LastCall.result = "error"
    /\ LastCall.attempt = 2

\* how the except branch of a stage's node begins its error message
FailurePrefix(stage) ==
    CASE stage = "generator" -> <<"SQL generation failed: ">>
      [] stage = "validator" -> <<"SQL validation failed: ">>
      [] stage = "executor" -> <<"SQL execution failed: ">>
      [] stage = "formatter" -> <<"Response formatting failed: ">>

\* the step made a collaborator call that ended in the given way
CallEnded(result) ==
    /\ Len(calls') = Len(calls) + 1
    /\ calls'[Len(calls')].result = result

\* C27: no exception of a collaborator escapes its stage.  A call that
\* raises leaves the graph running (process_query's except branch is not
\* entered), error_message becomes the stage's failure prefix followed by
\* the exception's text, and every other field of the state keeps its
\* value; an exception inside the query tool is turned by execute_query
\* into a failed outcome holding its text, with no error recorded.
C27_ExceptionsStayInTheirStage ==
    [][/\ (CallEnded("error") /\ calls'[Len(calls')].detail # << >>) =>
            LET c == calls'[Len(calls')]
            IN  /\ state' = [state EXCEPT
                               !.error_message = FailurePrefix(c.stage) \o c.detail]
                /\ pc' = "finalize"
       /\ CallEnded("failed") =>
            LET c == calls'[Len(calls')]
            IN  /\ state' = [state EXCEPT !.execution_success = FALSE,
                                          !.query_results = c.detail,
                                          !.row_count = NoneInt]
                /\ pc' = "increment_retry"]_vars

\* the Validator raised on the candidate of the second attempt; the
\* candidate is still in the state
C27_Witness ==
    /\ pc = "finalize"
    /\ LastCall.stage = "validator"
    /\ LastCall.result = "error"
    /\ LastCall.detail = <<"validator crashed">>
    /\ LastCall.attempt = 2
    /\ state.sql_query = LastCall.sql
    /\ state.error_message = <<"SQL validation failed: ", "validator crashed">>

\* C28: every result that process_query returns, on every path to a
\* return, carries an elapsed time: execution_time is never absent and is
\* the time from the start of the run to its terminal state.
C28_ResultCarriesElapsedTime ==
    Returned =>
        /\ Result.execution_time # NoneInt
        /\ Result.execution_time = clock - state.start_time

\* the calls made in the attempt in which the run ended
FinalAttemptCalls == {i \in DOMAIN calls : calls[i].attempt = state.current_attempt}

\* C29: a run returns success only when, in its final attempt, the
\* Validator accepted the candidate, the Executor succeeded on that very
\* candidate and the Formatter was called on its result and returned; no
\* call of the final attempt failed, and the state holds the accepted
\* verdict, the successful outcome and no error.
C29_SuccessOnlyAfterCleanFinalAttempt ==
    (Returned /\ Result.success) =>
        /\ \A i \in FinalAttemptCalls : calls[i].result = "ok"
        /\ \A stage \in {"generator", "validator", "executor", "formatter"} :
              \E i \in FinalAttemptCalls :
                 /\ calls[i].stage = stage
                 /\ calls[i].sql = Result.sql_query
        /\ state.validation_result # NoneDict
        /\ state.validation_result[1].is_valid
        /\ state.execution_success
        /\ state.error_message = None
        /\ LastCall.stage = "formatter"

\* success in the second attempt after the Executor failed in the first
C29_Witness ==
    /\ Returned
    /\ Result.success
    /\ state.current_attempt = 2
    /\ \E i \in DOMAIN calls :
          /\ calls[i].attempt = 1
          /\ calls[i].stage = "executor"
          /\ calls[i].result = "failed"

\* C30: at the end of every run the attempt counter, which
\* finalize_state_node reports as 'Attempts made', is the number of
\* Generator calls the run made.
C30_AttemptsMadeCountsGeneratorCalls ==
    pc \in {"END", "returned"} => state.current_attempt = GeneratorCalls

\* the fields of the state that belong to one attempt, with its counter
PerAttemptFields ==
    {"current_attempt", "sql_query", "validation_result", "query_results",
     "execution_success"}

\* C31: once a run is initialised no node changes its question, user_id or
\* start_time (the initialize node itself keeps question and user_id), and
\* the retry node adds one to the attempt counter and changes no field
\* other than the per-attempt ones: candidate, verdict, execution payload
\* and execution-success flag.
C31_RunIdentityIsFramed ==
    [][/\ pc \in GraphNodes =>
             /\ state'.question = state.question
             /\ state'.user_id = state.user_id
       /\ pc \in GraphNodes \ {"initialize"} =>
             state'.start_time = state.start_time
       /\ pc = "increment_retry" =>
             /\ state'.current_attempt = state.current_attempt + 1
             /\ \A f \in DOMAIN state \ PerAttemptFields :
                   state'[f] = state[f]]_vars

\* a second attempt is about to start after a failed execution, with the
\* question, the user and the start time of the run still in place
C31_Witness ==
    /\ pc = "generate_sql"
    /\ state.current_attempt = 2
    /\ LastCall.result = "failed"
    /\ state.question = <<"Total revenue">>
    /\ state.user_id = <<"u1">>
    /\ state.start_time = 1
    /\ state.sql_query = None

----------------------------------------------------------------------------
\* main.py: the /query endpoint
\*
\* The endpoint sees the agent as a collaborator: sql_agent.process_query
\* returns a response that is a success or a failure, or raises.  A request
\* is taken through get_sql_agent_dependency, then through the handler up
\* to the call of the agent, then through the rest of the handler; the
\* steps of different requests come in any order.

\* how the agent's process_query ends, as the handler sees it
AgentOutcomes == {"success", "failure", "raise"}

\* the requests that stand at a place
RequestsAt(place) == {i \in RequestIds : requests[i].at = place}

\* get_sql_agent_dependency refusing the request: there is no agent
QueryRejected ==
    /\ \E i \in RequestsAt("waiting") :
          /\ ~Truthy(sql_agent)
          /\ requests' = [requests EXCEPT
                 ![i] = [@ EXCEPT
                           !.at = "answered",
                           !.status = 503,
                           !.detail = <<"SQL Agent service is not available">>]]
    /\ UNCHANGED <<sql_agent, app_state>>
    /\ UNCHANGED <<MAX_SQL_RETRIES, pc, state, clock, calls, response, other, generation, session>>

\* variant: the handler is entered without asking for the agent
QueryAccepted_NoDependency ==
    /\ \E i \in RequestsAt("waiting") :
          /\ requests' = [requests EXCEPT
                 ![i] = [@ EXCEPT !.at = "in_handler", !.processed = TRUE]]
    /\ app_state' = [app_state EXCEPT !.total_queries_processed = @ + 1]
    /\ UNCHANGED sql_agent
    /\ UNCHANGED <<MAX_SQL_RETRIES, pc, state, clock, calls, response, other, generation, session>>

\* the dependency hands over the agent and the handler runs up to its call
\* of sql_agent.process_query
QueryAccepted ==
    /\ \E i \in RequestsAt("waiting") :
          /\ Truthy(sql_agent)
          /\ requests' = [requests EXCEPT
                 ![i] = [@ EXCEPT !.at = "in_handler", !.processed = TRUE]]
    /\ app_state' = [app_state EXCEPT !.total_queries_processed = @ + 1]
    /\ UNCHANGED sql_agent
    /\ UNCHANGED <<MAX_SQL_RETRIES, pc, state, clock, calls, response, other, generation, session>>

\* variant: the except branch of the handler counts nothing
QueryCompleted_RaiseUncounted ==
    /\ \E i \in RequestsAt("in_handler"), outcome \in AgentOutcomes :
          /\ requests' = [requests EXCEPT
                 ![i] = [@ EXCEPT
                           !.at = "answered",
                           !.status = 200,
                           !.success = (outcome = "success"),
                           !.detail = IF outcome = "raise"
                                      THEN <<"Unexpected error processing query: ">>
                                      ELSE << >>]]
          /\ app_state' =
                CASE outcome = "success" ->
                        [app_state EXCEPT !.successful_queries = @ + 1]
                  [] outcome = "failure" ->
                        [app_state EXCEPT !.failed_queries = @ + 1]
                  [] outcome = "raise" -> app_state
    /\ UNCHANGED sql_agent
    /\ UNCHANGED <<MAX_SQL_RETRIES, pc, state, clock, calls, response, other, generation, session>>

\* the agent's call ends and the handler counts and answers: the response
\* of the agent, or the response of the except branch
QueryCompleted ==
    /\ \E i \in RequestsAt("in_handler"), outcome \in AgentOutcomes :
          /\ requests' = [requests EXCEPT
                 ![i] = [@ EXCEPT
                           !.at = "answered",
                           !.status = 200,
                           !.success = (outcome = "success"),
                           !.detail = IF outcome = "raise"
                                      THEN <<"Unexpected error processing query: ">>
                                      ELSE << >>]]
          /\ app_state' =
                CASE outcome = "success" ->
                        [app_state EXCEPT !.successful_queries = @ + 1]
                  [] outcome \in {"failure", "raise"} ->
                        [app_state EXCEPT !.failed_queries = @ + 1]
    /\ UNCHANGED sql_agent
    /\ UNCHANGED <<MAX_SQL_RETRIES, pc, state, clock, calls, response, other, generation, session>>

\* the API as its module is loaded: the agent was constructed, or its
\* construction failed and sql_agent is None
ApiInit ==
    /\ MAX_SQL_RETRIES = DefaultMaxSqlRetries
    /\ pc = "idle"
    /\ state = NoState
    /\ clock = 0
    /\ calls = << >>
    /\ response = << >>
    /\ other = NoOther
    /\ sql_agent \in {TheAgent, None}
    /\ app_state = NoQueriesYet
    /\ requests = NotArrived
    /\ generation = NoGeneration
    /\ query_history = << >>
    /\ added = << >>

ApiNext ==
    \/ QueryRejected
    \/ QueryAccepted
    \/ QueryCompleted

ApiSpec == ApiInit /\ [][ApiNext]_vars

\* the requests the handler has answered with a response of the given kind
Answered(success) ==
    {i \in RequestsAt("answered") :
        requests[i].status = 200 /\ requests[i].success = success}

\* C32: the usage counters are consistent whatever the order of the steps
\* of the /query requests: total_queries_processed counts each request once
\* from the moment it reaches the handler, a completed request is counted
\* in exactly one of successful_queries and failed_queries, so their sum
\* never exceeds the total and equals it whenever no request is in the
\* handler.
C32_CountersConsistent ==
    /\ app_state.total_queries_processed =
          Cardinality({i \in RequestIds : requests[i].processed})
    /\ app_state.successful_queries = Cardinality(Answered(TRUE))
    /\ app_state.failed_queries = Cardinality(Answered(FALSE))
    /\ app_state.successful_queries + app_state.failed_queries
          <= app_state.total_queries_processed
    /\ RequestsAt("in_handler") = {} =>
          app_state.successful_queries + app_state.failed_queries
             = app_state.total_queries_processed

\* two requests are in the handler at once while one has been answered
\* with a success and one with the response of the except branch
C32_Witness ==
    /\ Cardinality(RequestsAt("in_handler")) = 2
    /\ app_state.total_queries_processed = 4
    /\ app_state.successful_queries = 1
    /\ app_state.failed_queries = 1
    /\ \E i \in Answered(FALSE) :
          requests[i].detail = <<"Unexpected error processing query: ">>

\* C33: when the global agent failed to initialise, every /query request
\* is refused with status 503 before the handler body runs: the agent's
\* process_query is not called for it and the three usage counters stay
\* as they were.
C33_NoAgentMeans503 ==
    ~Truthy(sql_agent) =>
        /\ app_state = NoQueriesYet
        /\ \A i \in RequestIds :
              /\ requests[i].at \in {"waiting", "answered"}
              /\ ~requests[i].processed
              /\ requests[i].at = "answered" =>
                    /\ requests[i].status = 503
                    /\ ~requests[i].success
                    /\ requests[i].detail = <<"SQL Agent service is not available">>

\* without an agent, every request has been refused
C33_Witness ==
    /\ sql_agent = None
    /\ RequestsAt("answered") = RequestIds
    /\ \A i \in RequestIds : requests[i].status = 503

----------------------------------------------------------------------------
\* generate_sql_node step by step: the chain manager, the schema, the LLM
\*
\* LLMChainManager.process_question first asks DatabaseTools.get_schema_info
\* for the schema and then calls SQLGenerationChain.generate_sql with the
\* question and that schema.

\* What the schema tool (info_tool.run) may answer, or the failure it raises
SchemaToolResults ==
    [kind : {"ok"}, text : { <<"customers(id, email)">>, << >> }]
    \cup [kind : {"raise"}, text : { <<"connection refused">>, <<"schema timeout">> }]

\* What the LLM of the SQL generation chain may answer to the prompt
ChainResults ==
    [kind : {"ok"}, text : LLMOutputs \cup { << >>, <<"\n", " ">> }]
    \cup [kind : {"raise"}, text : { <<"LLM timeout">>, <<"rate limit">> }]

\* DatabaseTools.get_schema_info: the schema text, or the failure as a text
get_schema_info(t) ==
    IF t.kind = "raise"
    THEN <<"Error retrieving schema info: ">> \o t.text
    ELSE t.text

\* generate_sql_node up to get_chain_manager(): without a chain manager the
\* node ends with an error
GetChainManager ==
    /\ generation.at \in {"idle", "done"}
    /\ \E question \in Questions, user_id \in UserIds, available \in BOOLEAN :
          LET s == initialize_state(InitialState(question, user_id), 1)
              r == [kind |-> "unavailable", text |-> << >>]
          IN  generation' =
                 IF available
                 THEN [NoGeneration EXCEPT !.at = "process_question",
                                           !.state = s]
                 ELSE [NoGeneration EXCEPT
                         !.at = "done",
                         !.state = generate_sql_node(s, r),
                         !.decision = should_validate_sql(generate_sql_node(s, r))]
    /\ UNCHANGED <<MAX_SQL_RETRIES, pc, state, clock, calls, response, other, api, session>>

\* variant: a failure of the schema tool is raised to generate_sql_node
GetSchemaInfo_Raises ==
    /\ generation.at = "process_question"
    /\ \E t \in SchemaToolResults :
          LET r == [kind |-> "raise", text |-> t.text]
          IN  generation' =
                 IF t.kind = "raise"
                 THEN [generation EXCEPT
                         !.at = "done",
                         !.schema_failed = TRUE,
                         !.state = generate_sql_node(@, r),
                         !.decision =
                            should_validate_sql(generate_sql_node(generation.state, r))]
                 ELSE [generation EXCEPT !.at = "generate_sql",
                                         !.schema_info = get_schema_info(t)]
    /\ UNCHANGED <<MAX_SQL_RETRIES, pc, state, clock, calls, response, other, api, session>>

\* process_question, step 1: self.db_tools.get_schema_info()
GetSchemaInfo ==
    /\ generation.at = "process_question"
    /\ \E t \in SchemaToolResults :
          generation' = [generation EXCEPT
                           !.at = "generate_sql",
                           !.schema_failed = (t.kind = "raise"),
                           !.schema_info = get_schema_info(t)]
    /\ UNCHANGED <<MAX_SQL_RETRIES, pc, state, clock, calls, response, other, api, session>>

\* process_question, step 2: generate_sql(question, schema_info), and the
\* rest of generate_sql_node with the decision of should_validate_sql
InvokeGenerator ==
    /\ generation.at = "generate_sql"
    /\ \E r \in ChainResults :
          LET s == generate_sql_node(generation.state, r)
          IN  generation' = [generation EXCEPT
                 !.at = "done",
                 !.prompt = <<[question |-> generation.state.question,
                               schema |-> generation.schema_info]>>,
                 !.output = <<r>>,
                 !.state = s,
                 !.decision = should_validate_sql(s)]
    /\ UNCHANGED <<MAX_SQL_RETRIES, pc, state, clock, calls, response, other, api, session>>

GenerationInit ==
    /\ MAX_SQL_RETRIES = DefaultMaxSqlRetries
    /\ pc = "idle"
    /\ state = NoState
    /\ clock = 0
    /\ calls = << >>
    /\ response = << >>
    /\ other = NoOther
    /\ sql_agent = TheAgent
    /\ app_state = NoQueriesYet
    /\ requests = NotArrived
    /\ generation = NoGeneration
    /\ query_history = << >>
    /\ added = << >>

GenerationNext ==
    \/ GetChainManager
    \/ GetSchemaInfo
    \/ InvokeGenerator

GenerationSpec == GenerationInit /\ [][GenerationNext]_vars

\* C34: a failure of the schema tool does not by itself fail the
\* generation stage: get_schema_info turns it into the text 'Error
\* retrieving schema info: ...', no error is recorded for it, the Generator
\* is still invoked, with that text as its schema, and when it returns a
\* candidate the run goes on to validate_sql.
C34_SchemaFailureIsNotFatal ==
    generation.schema_failed =>
        /\ generation.at \in {"generate_sql", "done"}
        /\ Head(generation.schema_info) = "Error retrieving schema info: "
        /\ generation.at = "generate_sql" =>
              generation.state.error_message = None
        /\ generation.at = "done" =>
              /\ generation.prompt # << >>
              /\ generation.prompt[1].schema = generation.schema_info
              /\ generation.prompt[1].question = generation.state.question
              /\ generation.output # << >>
              /\ generation.output[1].kind = "ok" =>
                    /\ generation.state.error_message = None
                    /\ Truthy(generation.state.sql_query)
                    /\ EdgeTarget("generate_sql", generation.decision)
                          = "validate_sql"

\* the schema tool failed, the Generator returned a candidate all the
\* same, and the run goes on to validate_sql
C34_Witness ==
    /\ generation.at = "done"
    /\ generation.schema_failed
    /\ generation.prompt[1].schema
          = <<"Error retrieving schema info: ", "connection refused">>
    /\ generation.output[1].kind = "ok"
    /\ generation.state.sql_query = <<"SELECT b", ";">>
    /\ generation.decision = "validate"

\* C36: every candidate that a successful generate_sql call returns is
\* non-empty and ends with a semicolon, even for an empty or blank LLM
\* output, so after a successful Generator call should_validate_sql sends
\* the run to validate_sql and validate_sql_node never takes its 'No SQL
\* query to validate' branch.
C36_CandidateEndsWithSemicolon ==
    (/\ generation.at = "done"
     /\ generation.output # << >>
     /\ generation.output[1].kind = "ok")
    => LET sql == generation.state.sql_query
       IN  /\ sql = generate_sql(generation.output[1].text)
           /\ sql # None
           /\ Len(sql) >= 1
           /\ sql[Len(sql)] = ";"
           /\ generation.state.error_message = None
           /\ generation.decision = "validate"
           /\ EdgeTarget("generate_sql", generation.decision) = "validate_sql"
           /\ \A v \in ValidatorResponses :
                 validate_sql_node(generation.state, v).error_message
                    # <<"No SQL query to validate">>

\* the LLM answered nothing at all and the candidate is a lone semicolon
C36_Witness ==
    /\ generation.at = "done"
    /\ generation.output # << >>
    /\ generation.output[1].kind = "ok"
    /\ generation.output[1].text = << >>
    /\ generation.state.sql_query = <<";">>
    /\ generation.decision = "validate"

----------------------------------------------------------------------------
\* frontend/utils.py: the query history of a Streamlit session
\*
\* query_history is << >> while the key is not in st.session_state and
\* <<list>> once it is.  The time of day of an item is modelled by the
\* number of the call that added it.

\* What the backend answered, as add_to_query_history reads it: the value
\* of the "success" key, or << >> when the response has no such key
HistoryResponses == { <<TRUE>>, << >> }

\* the questions app.py hands on: stripped and not blank
HistoryQuestions == { <<"Show all customers">> }

\* the history item built by add_to_query_history
history_item(now, question, response_data) ==
    [timestamp |-> now,
     question |-> question,
     response |-> response_data,
     success |-> IF response_data = << >> THEN FALSE ELSE response_data[1]]

\* list[-n:] of a list of more than n items
LastItems(list, n) == SubSeq(list, Len(list) - n + 1, Len(list))

\* variant: the first items are kept
add_to_query_history_KeepsFirst(history, item) ==
    LET appended == Append(history, item)
    IN  IF Len(appended) > HistoryLimit
        THEN SubSeq(appended, 1, HistoryLimit)
        ELSE appended

\* add_to_query_history: append, then keep the last HistoryLimit items
add_to_query_history(history, item) ==
    LET appended == Append(history, item)
    IN  IF Len(appended) > HistoryLimit
        THEN LastItems(appended, HistoryLimit)
        ELSE appended

\* initialize_session_state, run at the top of every script run
InitializeSessionState ==
    /\ query_history' = IF query_history = << >>
                        THEN << << >> >>
                        ELSE query_history
    /\ UNCHANGED added
    /\ UNCHANGED <<MAX_SQL_RETRIES, pc, state, clock, calls, response, other,
                   api, generation>>

\* process_user_query adding the question and the backend's response
AddToQueryHistory ==
    /\ query_history # << >>
    /\ Len(added) < MaxAdds
    /\ \E question \in HistoryQuestions, r \in HistoryResponses :
          LET item == history_item(Len(added) + 1, question, r)
          IN  /\ query_history' = <<add_to_query_history(query_history[1], item)>>
              /\ added' = Append(added, item)
    /\ UNCHANGED <<MAX_SQL_RETRIES, pc, state, clock, calls, response, other,
                   api, generation>>

FrontendInit ==
    /\ MAX_SQL_RETRIES = DefaultMaxSqlRetries
    /\ pc = "idle"
    /\ state = NoState
    /\ clock = 0
    /\ calls = << >>
    /\ response = << >>
    /\ other = NoOther
    /\ sql_agent = TheAgent
    /\ app_state = NoQueriesYet
    /\ requests = NotArrived
    /\ generation = NoGeneration
    /\ query_history = << >>
    /\ added = << >>

FrontendNext ==
    \/ InitializeSessionState
    \/ AddToQueryHistory

FrontendSpec == FrontendInit /\ [][FrontendNext]_vars

\* the list held in st.session_state.query_history
History == query_history[1]

\* C35: after any sequence of add_to_query_history calls the history holds
\* at most 10 items, and they are exactly the most recently added items,
\* in the order in which they were added.
C35_HistoryKeepsLastTen ==
    query_history # << >> =>
        /\ Len(History) <= 10
        /\ Len(History) = (IF Len(added) <= 10 THEN Len(added) ELSE 10)
        /\ \A k \in 1..Len(History) :
              History[k] = added[Len(added) - Len(History) + k]

\* twelve items were added: the history holds the third to the twelfth
C35_Witness ==
    /\ Len(added) = 12
    /\ Len(History) = 10
    /\ History[1].timestamp = 3
    /\ History[10].timestamp = 12
    /\ \E k \in 1..10 : ~History[k].success
====
